---- MODULE Spec2Model ----
(***************************************************************************)
(* A model of class.py: the RomanEmperor record, the RomanEmpire            *)
(* collection with its add and query methods, and create_roman_empire,     *)
(* the function that builds the collection of the 21 historical emperors.  *)
(*                                                                         *)
(* Python values are modelled as follows.                                  *)
(*   str            a sequence of one-character strings                    *)
(*   None / a value None == <<>>, Some(v) == <<v>>                         *)
(*   list           a sequence                                             *)
(*   set            a set                                                  *)
(*   object         a record; its field obj is the object's identity       *)
(***************************************************************************)
EXTENDS Integers, Sequences, FiniteSets, TLC

VARIABLES emperors, dynasties, pc, i, call, ret

vars == <<emperors, dynasties, pc, i, call, ret>>

----------------------------------------------------------------------------
(* Bounds of the model *)

\* Largest number of records a caller adds to a collection.
MaxEmperors == 3

\* Query years range over -MaxYear .. MaxYear.
MaxYear == 3

\* top_n ranges over -MaxN .. MaxN.
MaxN == 4

\* Longest name or wife fragment a caller asks for.
MaxFragLen == 2

\* Longest line of digits, signs, blanks and underscores typed at the prompt
\* of main.
MaxLineLen == 3

----------------------------------------------------------------------------
(* Python values *)

None == <<>>

Some(v) == <<v>>

\* The test "x is not None" in the place of the truth value of x.
IsNotNone(x) == x # None

\* Truth value of an optional str: None and "" are false.
Truthy(x) == x # None /\ x[1] # <<>>

\* "x or []" for an optional list x.
OrEmptyList(x) == IF x = None \/ x[1] = <<>> THEN <<>> ELSE x[1]

UpperCase ==
    <<"A","B","C","D","E","F","G","H","I","J","K","L","M",
      "N","O","P","Q","R","S","T","U","V","W","X","Y","Z">>

LowerCase ==
    <<"a","b","c","d","e","f","g","h","i","j","k","l","m",
      "n","o","p","q","r","s","t","u","v","w","x","y","z">>

LowerChar(c) ==
    IF \E k \in DOMAIN UpperCase : UpperCase[k] = c
    THEN LowerCase[CHOOSE k \in DOMAIN UpperCase : UpperCase[k] = c]
    ELSE c

\* str.lower()
lower(s) == [k \in 1..Len(s) |-> LowerChar(s[k])]

\* "a in b" for two str: a occurs in b as a contiguous run of characters.
StrIn(a, b) ==
    \E k \in 0..(Len(b) - Len(a)) : SubSeq(b, k + 1, k + Len(a)) = a

\* s[:n] for a list s and an integer n.
SliceTo(s, n) ==
    IF n >= 0
    THEN SubSeq(s, 1, IF n < Len(s) THEN n ELSE Len(s))
    ELSE SubSeq(s, 1, IF Len(s) + n > 0 THEN Len(s) + n ELSE 0)

----------------------------------------------------------------------------
(* class RomanEmperor *)

\* RomanEmperor.__init__; obj names the object that is constructed.
RomanEmperor(obj, name, birth, death, reign_start, reign_end, dynasty, notable_achievements, cause_of_death, predecessor, successor, wives, zodiac) ==
    [obj |-> obj,
     name |-> name,
     birth |-> birth,
     death |-> death,
     reign_start |-> reign_start,
     reign_end |-> reign_end,
     dynasty |-> dynasty,
     notable_achievements |-> OrEmptyList(notable_achievements),
     cause_of_death |-> cause_of_death,
     predecessor |-> predecessor,
     successor |-> successor,
     wives |-> OrEmptyList(wives),
     zodiac |-> zodiac]

reign_duration(self) == self.reign_end - self.reign_start

age_at_death(self) == self.death - self.birth

age_at_accession(self) == self.reign_start - self.birth

----------------------------------------------------------------------------
(* class RomanEmpire: the methods as functions of the collection *)

\* The loop of get_emperor_by_name from record k on.
RECURSIVE by_name_loop(_, _, _)
by_name_loop(es, name, k) ==
    IF k > Len(es) THEN None
    ELSE IF StrIn(lower(name), lower(es[k].name)) THEN Some(es[k])
    ELSE by_name_loop(es, name, k + 1)

\* get_emperor_by_name comparing the characters as they are written.
RECURSIVE by_name_loop_cased(_, _, _)
by_name_loop_cased(es, name, k) ==
    IF k > Len(es) THEN None
    ELSE IF StrIn(name, es[k].name) THEN Some(es[k])
    ELSE by_name_loop_cased(es, name, k + 1)

get_emperor_by_name_cased(es, name) == by_name_loop_cased(es, name, 1)

get_emperor_by_name(es, name) == by_name_loop(es, name, 1)

\* The loop of get_emperor_by_year from record k on; acc is ruling_emperors.
RECURSIVE by_year_loop(_, _, _, _)
by_year_loop(es, year, k, acc) ==
    IF k > Len(es) THEN acc
    ELSE IF es[k].reign_start <= year /\ year <= es[k].reign_end
         THEN by_year_loop(es, year, k + 1, Append(acc, es[k]))
         ELSE by_year_loop(es, year, k + 1, acc)

\* get_emperor_by_year with the last year of a reign left out.
RECURSIVE by_year_loop_exclusive(_, _, _, _)
by_year_loop_exclusive(es, year, k, acc) ==
    IF k > Len(es) THEN acc
    ELSE IF es[k].reign_start <= year /\ year < es[k].reign_end
         THEN by_year_loop_exclusive(es, year, k + 1, Append(acc, es[k]))
         ELSE by_year_loop_exclusive(es, year, k + 1, acc)

get_emperor_by_year_exclusive(es, year) == by_year_loop_exclusive(es, year, 1, <<>>)

get_emperor_by_year(es, year) == by_year_loop(es, year, 1, <<>>)

get_emperors_by_dynasty(es, dynasty) ==
    SelectSeq(es, LAMBDA emperor : emperor.dynasty = dynasty)

\* get_emperors_by_period keeping only the reigns inside the window.
get_emperors_by_period_contained(es, start_year, end_year) ==
    SelectSeq(es, LAMBDA emperor :
        emperor.reign_start >= start_year /\ emperor.reign_end <= end_year)

get_emperors_by_period(es, start_year, end_year) ==
    SelectSeq(es, LAMBDA emperor :
        ~(emperor.reign_end < start_year \/ emperor.reign_start > end_year))

get_emperors_by_zodiac(es, zodiac_sign) ==
    SelectSeq(es, LAMBDA emperor : emperor.zodiac = zodiac_sign)

\* Whether the record at index x sorts strictly before the one at index y.
KeyLess(keys, reverse, x, y) ==
    IF reverse THEN keys[x] > keys[y] ELSE keys[x] < keys[y]

\* One step of the sort: index x goes behind every index already placed
\* that it does not sort strictly before (perm is sorted, so these are a
\* prefix of perm).
InsertIndex(perm, keys, reverse, x) ==
    LET p == Cardinality({j \in DOMAIN perm : ~KeyLess(keys, reverse, x, perm[j])})
    IN  SubSeq(perm, 1, p) \o <<x>> \o SubSeq(perm, p + 1, Len(perm))

RECURSIVE sort_indices(_, _, _, _)
sort_indices(keys, reverse, k, perm) ==
    IF k > Len(keys) THEN perm
    ELSE sort_indices(keys, reverse, k + 1, InsertIndex(perm, keys, reverse, k))

\* sorted with reverse=True done as an ascending sort that is then reversed.
sorted_by_reversal(xs, keys, reverse) ==
    LET perm == sort_indices(keys, FALSE, 1, <<>>)
    IN  [k \in 1..Len(xs) |->
            IF reverse THEN xs[perm[Len(xs) + 1 - k]] ELSE xs[perm[k]]]

\* sorted(xs, key=..., reverse=...): keys[k] is the key of xs[k].  The sort
\* is stable, also under reverse=True.
sorted(xs, keys, reverse) ==
    LET perm == sort_indices(keys, reverse, 1, <<>>)
    IN  [k \in 1..Len(xs) |-> xs[perm[k]]]

get_longest_reigning(es, top_n) ==
    SliceTo(sorted(es, [k \in 1..Len(es) |-> reign_duration(es[k])], TRUE), top_n)

get_shortest_reigning(es, top_n) ==
    SliceTo(sorted(es, [k \in 1..Len(es) |-> reign_duration(es[k])], FALSE), top_n)

get_oldest_at_death(es, top_n) ==
    SliceTo(sorted(es, [k \in 1..Len(es) |-> age_at_death(es[k])], TRUE), top_n)

get_youngest_at_accession(es, top_n) ==
    SliceTo(sorted(es, [k \in 1..Len(es) |-> age_at_accession(es[k])], FALSE), top_n)

get_most_achievements(es, top_n) ==
    SliceTo(sorted(es, [k \in 1..Len(es) |-> Len(es[k].notable_achievements)], TRUE), top_n)

\* The inner loop of get_emperors_by_wife: whether some wife from entry w on
\* matches (the loop breaks at the first one).
RECURSIVE wife_loop(_, _, _)
wife_loop(wives, wife_name, w) ==
    IF w > Len(wives) THEN FALSE
    ELSE IF StrIn(lower(wife_name), lower(wives[w])) THEN TRUE
    ELSE wife_loop(wives, wife_name, w + 1)

\* The outer loop of get_emperors_by_wife; acc is emperors_with_wife.
RECURSIVE by_wife_loop(_, _, _, _)
by_wife_loop(es, wife_name, k, acc) ==
    IF k > Len(es) THEN acc
    ELSE IF wife_loop(es[k].wives, wife_name, 1)
         THEN by_wife_loop(es, wife_name, k + 1, Append(acc, es[k]))
         ELSE by_wife_loop(es, wife_name, k + 1, acc)

\* get_emperors_by_wife without the break: a record is appended once for
\* each of its wives that matches.
RECURSIVE by_wife_loop_no_break(_, _, _, _)
by_wife_loop_no_break(es, wife_name, k, acc) ==
    IF k > Len(es) THEN acc
    ELSE LET n == Cardinality({w \in DOMAIN es[k].wives :
                                 StrIn(lower(wife_name), lower(es[k].wives[w]))})
         IN  by_wife_loop_no_break(es, wife_name, k + 1, acc \o [j \in 1..n |-> es[k]])

get_emperors_by_wife_no_break(es, wife_name) == by_wife_loop_no_break(es, wife_name, 1, <<>>)

get_emperors_by_wife(es, wife_name) == by_wife_loop(es, wife_name, 1, <<>>)

----------------------------------------------------------------------------
(* The records and the arguments a caller of the collection uses *)

EmperorPool ==
    { RomanEmperor("e1", <<"N","e","r","o">>, -2, 0, 0, 0, Some(<<"J">>),
                   Some(<< <<"x">>, <<"y">> >>), None, None, None,
                   Some(<< <<"P","o">>, <<"o","P">> >>), Some(<<"L">>)),
      RomanEmperor("e2", <<"O","t","h","o">>, -1, 1, 0, 1, Some(<<"J">>),
                   Some(<< <<"x">> >>), Some(<<"c">>), Some(<<"N","e","r","o">>), None,
                   Some(<< <<"A","n","n">>, <<"P","e">> >>), None),
      RomanEmperor("e3", <<"P","i","u","s">>, -2, 2, 1, 2, None,
                   None, None, None, None,
                   None, Some(<<>>)),
      RomanEmperor("e4", <<"N","e">>, -1, 2, 2, 2, Some(<<>>),
                   Some(<< <<"x">> >>), Some(<<>>), None, None,
                   Some(<< <<"E","n">> >>), Some(<<"V">>)),
      RomanEmperor("e5", <<"P","o">>, -2, 2, 0, 2, Some(<<"F">>),
                   Some(<< <<"x">>, <<"y">> >>), None, None, None,
                   Some(<< <<"n","o">>, <<"O","n">> >>), Some(<<"L">>)),
      RomanEmperor("e6", <<"N","e","r","o">>, -1, 1, 1, 1, Some(<<"F">>),
                   Some(<< <<"z">> >>), None, None, None,
                   Some(<<>>), Some(<<"V">>)) }

Years == (0 - MaxYear)..MaxYear

TopNs == (0 - MaxN)..MaxN

FragChars == {"E", "o", "p"}

Fragments == UNION {[1..n -> FragChars] : n \in 0..MaxFragLen}

DynastyArgs == {None, Some(<<>>), Some(<<"J">>), Some(<<"F">>), Some(<<"j">>)}

ZodiacArgs == {None, Some(<<>>), Some(<<"L">>), Some(<<"V">>), Some(<<"l">>)}

----------------------------------------------------------------------------
(* create_roman_empire: the 21 records it constructs, each named as the    *)
(* local variable that holds it *)

\* lines 135-155
augustus ==
    RomanEmperor("augustus",
        <<"A","u","g","u","s","t","u","s"," ","(","O","c","t","a","v","i","a","n",")">>,
        -63,
        14,
        -27,
        14,
        Some(
          <<"J","u","l","i","o","-","C","l","a","u","d","i","a","n">>),
        Some(<<
              <<"F","i","r","s","t"," ","R","o","m","a","n"," ","E","m","p","e","r","o","r">>,
              <<"E","s","t","a","b","l","i","s","h","e","d"," ","t","h","e"," ","P","a","x"," ",
                "R","o","m","a","n","a"," ","(","R","o","m","a","n"," ","P","e","a","c","e",")">>,
              <<"R","e","b","u","i","l","t"," ","m","u","c","h"," ","o","f"," ","R","o","m","e",
                "'","s"," ","i","n","f","r","a","s","t","r","u","c","t","u","r","e">>,
              <<"E","s","t","a","b","l","i","s","h","e","d"," ","a"," ","s","t","a","n","d","i",
                "n","g"," ","a","r","m","y"," ","a","n","d"," ","P","r","a","e","t","o","r","i",
                "a","n"," ","G","u","a","r","d">> >>),
        Some(
          <<"N","a","t","u","r","a","l"," ","c","a","u","s","e","s">>),
        None,
        None,
        Some(<<
              <<"C","l","o","d","i","a"," ","P","u","l","c","h","r","a"," ","(","d","i","v","o",
                "r","c","e","d",")">>,
              <<"S","c","r","i","b","o","n","i","a"," ","(","d","i","v","o","r","c","e","d",")">>,
              <<"L","i","v","i","a"," ","D","r","u","s","i","l","l","a">> >>),
        Some(
          <<"L","i","b","r","a">>))

\* lines 157-176
tiberius ==
    RomanEmperor("tiberius",
        <<"T","i","b","e","r","i","u","s">>,
        -42,
        37,
        14,
        37,
        Some(
          <<"J","u","l","i","o","-","C","l","a","u","d","i","a","n">>),
        Some(<<
              <<"E","x","p","a","n","d","e","d"," ","t","h","e"," ","e","m","p","i","r","e"," ",
                "i","n"," ","G","e","r","m","a","n","i","a">>,
              <<"R","e","f","o","r","m","e","d"," ","t","h","e"," ","i","m","p","e","r","i","a",
                "l"," ","t","r","e","a","s","u","r","y">>,
              <<"M","i","l","i","t","a","r","y"," ","v","i","c","t","o","r","i","e","s"," ","i",
                "n"," ","P","a","n","n","o","n","i","a"," ","a","n","d"," ","I","l","l","y","r",
                "i","c","u","m">> >>),
        Some(
          <<"E","i","t","h","e","r"," ","n","a","t","u","r","a","l"," ","c","a","u","s","e","s",
            " ","o","r"," ","m","u","r","d","e","r","e","d"," ","b","y"," ","C","a","l","i","g",
            "u","l","a">>),
        Some(
          <<"A","u","g","u","s","t","u","s">>),
        None,
        Some(<<
              <<"V","i","p","s","a","n","i","a"," ","A","g","r","i","p","p","i","n","a"," ","(",
                "d","i","v","o","r","c","e","d",")">>,
              <<"J","u","l","i","a"," ","t","h","e"," ","E","l","d","e","r"," ","(","A","u","g",
                "u","s","t","u","s","'","s"," ","d","a","u","g","h","t","e","r",")">> >>),
        Some(
          <<"S","c","o","r","p","i","o">>))

\* lines 178-198
caligula ==
    RomanEmperor("caligula",
        <<"C","a","l","i","g","u","l","a"," ","(","G","a","i","u","s",")">>,
        12,
        41,
        37,
        41,
        Some(
          <<"J","u","l","i","o","-","C","l","a","u","d","i","a","n">>),
        Some(<<
              <<"B","u","i","l","t"," ","n","e","w"," ","a","q","u","e","d","u","c","t","s"," ",
                "a","n","d"," ","h","a","r","b","o","r","s">>,
              <<"A","n","n","e","x","e","d"," ","M","a","u","r","e","t","a","n","i","a">> >>),
        Some(
          <<"A","s","s","a","s","s","i","n","a","t","e","d"," ","b","y"," ","P","r","a","e","t",
            "o","r","i","a","n"," ","G","u","a","r","d">>),
        Some(
          <<"T","i","b","e","r","i","u","s">>),
        None,
        Some(<<
              <<"J","u","n","i","a"," ","C","l","a","u","d","i","l","l","a">>,
              <<"L","i","v","i","a"," ","O","r","e","s","t","i","l","l","a"," ","(","b","r","i",
                "e","f","l","y",")">>,
              <<"L","o","l","l","i","a"," ","P","a","u","l","i","n","a"," ","(","b","r","i","e",
                "f","l","y",")">>,
              <<"M","i","l","o","n","i","a"," ","C","a","e","s","o","n","i","a">> >>),
        Some(
          <<"V","i","r","g","o">>))

\* lines 200-222
claudius ==
    RomanEmperor("claudius",
        <<"C","l","a","u","d","i","u","s">>,
        -10,
        54,
        41,
        54,
        Some(
          <<"J","u","l","i","o","-","C","l","a","u","d","i","a","n">>),
        Some(<<
              <<"C","o","n","q","u","e","r","e","d"," ","B","r","i","t","a","i","n">>,
              <<"E","x","p","a","n","d","e","d"," ","t","h","e"," ","i","m","p","e","r","i","a",
                "l"," ","b","u","r","e","a","u","c","r","a","c","y">>,
              <<"B","u","i","l","t"," ","m","a","n","y"," ","p","u","b","l","i","c"," ","w","o",
                "r","k","s"," ","i","n","c","l","u","d","i","n","g"," ","t","h","e"," ","A","q",
                "u","a"," ","C","l","a","u","d","i","a"," ","a","q","u","e","d","u","c","t">>,
              <<"R","e","f","o","r","m","e","d"," ","t","h","e"," ","l","e","g","a","l"," ","s",
                "y","s","t","e","m">> >>),
        Some(
          <<"P","o","i","s","o","n","e","d"," ","(","l","i","k","e","l","y"," ","b","y"," ","h",
            "i","s"," ","w","i","f","e"," ","A","g","r","i","p","p","i","n","a",")">>),
        Some(
          <<"C","a","l","i","g","u","l","a">>),
        None,
        Some(<<
              <<"P","l","a","u","t","i","a"," ","U","r","g","u","l","a","n","i","l","l","a"," ",
                "(","d","i","v","o","r","c","e","d",")">>,
              <<"A","e","l","i","a"," ","P","a","e","t","i","n","a"," ","(","d","i","v","o","r",
                "c","e","d",")">>,
              <<"V","a","l","e","r","i","a"," ","M","e","s","s","a","l","i","n","a"," ","(","e",
                "x","e","c","u","t","e","d",")">>,
              <<"A","g","r","i","p","p","i","n","a"," ","t","h","e"," ","Y","o","u","n","g","e",
                "r"," ","(","h","i","s"," ","n","i","e","c","e",")">> >>),
        Some(
          <<"L","e","o">>))

\* lines 224-244
nero ==
    RomanEmperor("nero",
        <<"N","e","r","o">>,
        37,
        68,
        54,
        68,
        Some(
          <<"J","u","l","i","o","-","C","l","a","u","d","i","a","n">>),
        Some(<<
              <<"B","u","i","l","t"," ","t","h","e"," ","D","o","m","u","s"," ","A","u","r","e",
                "a"," ","(","G","o","l","d","e","n"," ","H","o","u","s","e",")">>,
              <<"I","n","i","t","i","a","l","l","y"," ","p","o","p","u","l","a","r"," ","f","o",
                "r"," ","t","a","x"," ","r","e","f","o","r","m","s">>,
              <<"D","i","p","l","o","m","a","t","i","c"," ","s","o","l","u","t","i","o","n"," ",
                "t","o"," ","c","o","n","f","l","i","c","t"," ","w","i","t","h"," ","P","a","r",
                "t","h","i","a">> >>),
        Some(
          <<"S","u","i","c","i","d","e"," ","a","f","t","e","r"," ","b","e","i","n","g"," ","d",
            "e","c","l","a","r","e","d"," ","a"," ","p","u","b","l","i","c"," ","e","n","e","m",
            "y">>),
        Some(
          <<"C","l","a","u","d","i","u","s">>),
        None,
        Some(<<
              <<"C","l","a","u","d","i","a"," ","O","c","t","a","v","i","a"," ","(","e","x","e",
                "c","u","t","e","d",")">>,
              <<"P","o","p","p","a","e","a"," ","S","a","b","i","n","a"," ","(","d","i","e","d",
                ";"," ","p","o","s","s","i","b","l","y"," ","k","i","c","k","e","d"," ","t","o",
                " ","d","e","a","t","h"," ","b","y"," ","N","e","r","o",")">>,
              <<"S","t","a","t","i","l","i","a"," ","M","e","s","s","a","l","i","n","a">> >>),
        Some(
          <<"S","a","g","i","t","t","a","r","i","u","s">>))

\* lines 247-262
galba ==
    RomanEmperor("galba",
        <<"G","a","l","b","a">>,
        -3,
        69,
        68,
        69,
        Some(
          <<"Y","e","a","r"," ","o","f"," ","t","h","e"," ","F","o","u","r"," ","E","m","p","e",
            "r","o","r","s">>),
        Some(<<
              <<"F","i","r","s","t"," ","e","m","p","e","r","o","r"," ","i","n"," ","t","h","e",
                " ","Y","e","a","r"," ","o","f"," ","t","h","e"," ","F","o","u","r"," ","E","m",
                "p","e","r","o","r","s">>,
              <<"A","t","t","e","m","p","t","e","d"," ","f","i","n","a","n","c","i","a","l"," ",
                "r","e","f","o","r","m","s">> >>),
        Some(
          <<"A","s","s","a","s","s","i","n","a","t","e","d"," ","i","n"," ","a"," ","c","o","u",
            "p"," ","l","e","d"," ","b","y"," ","O","t","h","o">>),
        Some(
          <<"N","e","r","o">>),
        None,
        Some(<<>>),
        Some(
          <<"C","a","p","r","i","c","o","r","n">>))

\* lines 264-281
otho ==
    RomanEmperor("otho",
        <<"O","t","h","o">>,
        32,
        69,
        69,
        69,
        Some(
          <<"Y","e","a","r"," ","o","f"," ","t","h","e"," ","F","o","u","r"," ","E","m","p","e",
            "r","o","r","s">>),
        Some(<<
              <<"F","o","r","m","e","r"," ","g","o","v","e","r","n","o","r"," ","o","f"," ","L",
                "u","s","i","t","a","n","i","a">>,
              <<"B","r","i","e","f","l","y"," ","r","e","c","o","g","n","i","z","e","d"," ","b",
                "y"," ","t","h","e"," ","S","e","n","a","t","e">> >>),
        Some(
          <<"S","u","i","c","i","d","e"," ","a","f","t","e","r"," ","d","e","f","e","a","t"," ",
            "i","n"," ","b","a","t","t","l","e">>),
        Some(
          <<"G","a","l","b","a">>),
        None,
        Some(<<
              <<"P","o","p","p","a","e","a"," ","S","a","b","i","n","a"," ","(","l","a","t","e",
                "r"," ","m","a","r","r","i","e","d"," ","N","e","r","o",")">> >>),
        Some(
          <<"A","r","i","e","s">>))

\* lines 283-301
vitellius ==
    RomanEmperor("vitellius",
        <<"V","i","t","e","l","l","i","u","s">>,
        15,
        69,
        69,
        69,
        Some(
          <<"Y","e","a","r"," ","o","f"," ","t","h","e"," ","F","o","u","r"," ","E","m","p","e",
            "r","o","r","s">>),
        Some(<<
              <<"F","o","r","m","e","r"," ","g","o","v","e","r","n","o","r"," ","o","f"," ","G",
                "e","r","m","a","n","i","a"," ","I","n","f","e","r","i","o","r">>,
              <<"L","a","v","i","s","h"," ","b","a","n","q","u","e","t","s"," ","a","n","d"," ",
                "e","n","t","e","r","t","a","i","n","m","e","n","t","s">> >>),
        Some(
          <<"E","x","e","c","u","t","e","d"," ","b","y"," ","V","e","s","p","a","s","i","a","n",
            "'","s"," ","t","r","o","o","p","s">>),
        Some(
          <<"O","t","h","o">>),
        None,
        Some(<<
              <<"P","e","t","r","o","n","i","a">>,
              <<"G","a","l","e","r","i","a"," ","F","u","n","d","a","n","a">> >>),
        Some(
          <<"V","i","r","g","o">>))

\* lines 304-324
vespasian ==
    RomanEmperor("vespasian",
        <<"V","e","s","p","a","s","i","a","n">>,
        9,
        79,
        69,
        79,
        Some(
          <<"F","l","a","v","i","a","n">>),
        Some(<<
              <<"R","e","s","t","o","r","e","d"," ","s","t","a","b","i","l","i","t","y"," ","a",
                "f","t","e","r"," ","c","i","v","i","l"," ","w","a","r">>,
              <<"B","e","g","a","n"," ","c","o","n","s","t","r","u","c","t","i","o","n"," ","o",
                "f"," ","t","h","e"," ","C","o","l","o","s","s","e","u","m">>,
              <<"F","i","n","a","n","c","i","a","l"," ","r","e","f","o","r","m","s"," ","a","n",
                "d"," ","b","a","l","a","n","c","e","d"," ","b","u","d","g","e","t">>,
              <<"C","o","n","q","u","e","r","e","d"," ","J","u","d","a","e","a"," ","a","n","d",
                " ","d","e","s","t","r","o","y","e","d"," ","t","h","e"," ","T","e","m","p","l",
                "e"," ","i","n"," ","J","e","r","u","s","a","l","e","m">> >>),
        Some(
          <<"N","a","t","u","r","a","l"," ","c","a","u","s","e","s">>),
        Some(
          <<"V","i","t","e","l","l","i","u","s">>),
        None,
        Some(<<
              <<"F","l","a","v","i","a"," ","D","o","m","i","t","i","l","l","a">>,
              <<"C","a","e","n","i","s"," ","(","c","o","n","c","u","b","i","n","e"," ","a","f",
                "t","e","r"," ","D","o","m","i","t","i","l","l","a","'","s"," ","d","e","a","t",
                "h",")">> >>),
        Some(
          <<"S","c","o","r","p","i","o">>))

\* lines 326-345
titus ==
    RomanEmperor("titus",
        <<"T","i","t","u","s">>,
        39,
        81,
        79,
        81,
        Some(
          <<"F","l","a","v","i","a","n">>),
        Some(<<
              <<"C","o","m","p","l","e","t","e","d"," ","t","h","e"," ","C","o","l","o","s","s",
                "e","u","m">>,
              <<"H","a","n","d","l","e","d"," ","t","h","e"," ","e","r","u","p","t","i","o","n",
                " ","o","f"," ","M","o","u","n","t"," ","V","e","s","u","v","i","u","s">>,
              <<"P","r","o","v","i","d","e","d"," ","r","e","l","i","e","f"," ","a","f","t","e",
                "r"," ","a"," ","f","i","r","e"," ","i","n"," ","R","o","m","e">> >>),
        Some(
          <<"F","e","v","e","r"," ","(","p","o","s","s","i","b","l","y"," ","m","a","l","a","r",
            "i","a",")">>),
        Some(
          <<"V","e","s","p","a","s","i","a","n">>),
        None,
        Some(<<
              <<"A","r","r","e","c","i","n","a"," ","T","e","r","t","u","l","l","a"," ","(","d",
                "i","e","d",")">>,
              <<"M","a","r","c","i","a"," ","F","u","r","n","i","l","l","a"," ","(","d","i","v",
                "o","r","c","e","d",")">> >>),
        Some(
          <<"C","a","p","r","i","c","o","r","n">>))

\* lines 347-366
domitian ==
    RomanEmperor("domitian",
        <<"D","o","m","i","t","i","a","n">>,
        51,
        96,
        81,
        96,
        Some(
          <<"F","l","a","v","i","a","n">>),
        Some(<<
              <<"S","t","r","e","n","g","t","h","e","n","e","d"," ","t","h","e"," ","e","c","o",
                "n","o","m","y"," ","a","n","d"," ","c","u","r","r","e","n","c","y">>,
              <<"E","x","p","a","n","d","e","d"," ","t","h","e"," ","b","o","r","d","e","r"," ",
                "f","o","r","t","i","f","i","c","a","t","i","o","n","s">>,
              <<"M","a","j","o","r"," ","b","u","i","l","d","i","n","g"," ","p","r","o","g","r",
                "a","m","s"," ","i","n"," ","R","o","m","e">>,
              <<"M","i","l","i","t","a","r","y"," ","c","a","m","p","a","i","g","n","s"," ","i",
                "n"," ","G","e","r","m","a","n","i","a"," ","a","n","d"," ","D","a","c","i","a">> >>),
        Some(
          <<"A","s","s","a","s","s","i","n","a","t","e","d"," ","i","n"," ","p","a","l","a","c",
            "e"," ","c","o","n","s","p","i","r","a","c","y">>),
        Some(
          <<"T","i","t","u","s">>),
        None,
        Some(<<
              <<"D","o","m","i","t","i","a"," ","L","o","n","g","i","n","a">> >>),
        Some(
          <<"S","c","o","r","p","i","o">>))

\* lines 369-385
nerva ==
    RomanEmperor("nerva",
        <<"N","e","r","v","a">>,
        30,
        98,
        96,
        98,
        Some(
          <<"N","e","r","v","a","-","A","n","t","o","n","i","n","e">>),
        Some(<<
              <<"E","s","t","a","b","l","i","s","h","e","d"," ","t","h","e"," ","t","r","a","d",
                "i","t","i","o","n"," ","o","f"," ","a","d","o","p","t","i","v","e"," ","s","u",
                "c","c","e","s","s","i","o","n">>,
              <<"L","a","n","d"," ","r","e","f","o","r","m","s"," ","t","o"," ","h","e","l","p",
                " ","t","h","e"," ","p","o","o","r">>,
              <<"R","e","d","u","c","e","d"," ","t","a","x","e","s"," ","a","n","d"," ","i","m",
                "p","r","o","v","e","d"," ","t","h","e"," ","g","r","a","i","n"," ","s","u","p",
                "p","l","y">> >>),
        Some(
          <<"N","a","t","u","r","a","l"," ","c","a","u","s","e","s">>),
        Some(
          <<"D","o","m","i","t","i","a","n">>),
        None,
        Some(<<>>),
        Some(
          <<"A","q","u","a","r","i","u","s">>))

\* lines 387-407
trajan ==
    RomanEmperor("trajan",
        <<"T","r","a","j","a","n">>,
        53,
        117,
        98,
        117,
        Some(
          <<"N","e","r","v","a","-","A","n","t","o","n","i","n","e">>),
        Some(<<
              <<"E","x","p","a","n","d","e","d"," ","t","h","e"," ","E","m","p","i","r","e"," ",
                "t","o"," ","i","t","s"," ","g","r","e","a","t","e","s","t"," ","t","e","r","r",
                "i","t","o","r","i","a","l"," ","e","x","t","e","n","t">>,
              <<"C","o","n","q","u","e","r","e","d"," ","D","a","c","i","a"," ","a","n","d"," ",
                "i","t","s"," ","g","o","l","d"," ","m","i","n","e","s">>,
              <<"E","x","t","e","n","s","i","v","e"," ","p","u","b","l","i","c"," ","b","u","i",
                "l","d","i","n","g"," ","p","r","o","g","r","a","m">>,
              <<"C","r","e","a","t","e","d"," ","a","l","i","m","e","n","t","a"," ","w","e","l",
                "f","a","r","e"," ","p","r","o","g","r","a","m"," ","f","o","r"," ","p","o","o",
                "r"," ","c","h","i","l","d","r","e","n">>,
              <<"T","r","a","j","a","n","'","s"," ","C","o","l","u","m","n"," ","a","n","d"," ",
                "T","r","a","j","a","n","'","s"," ","F","o","r","u","m">> >>),
        Some(
          <<"I","l","l","n","e","s","s"," ","(","p","o","s","s","i","b","l","y"," ","s","t","r",
            "o","k","e",")">>),
        Some(
          <<"N","e","r","v","a">>),
        None,
        Some(<<
              <<"P","o","m","p","e","i","a"," ","P","l","o","t","i","n","a">> >>),
        Some(
          <<"V","i","r","g","o">>))

\* lines 409-429
hadrian ==
    RomanEmperor("hadrian",
        <<"H","a","d","r","i","a","n">>,
        76,
        138,
        117,
        138,
        Some(
          <<"N","e","r","v","a","-","A","n","t","o","n","i","n","e">>),
        Some(<<
              <<"B","u","i","l","t"," ","H","a","d","r","i","a","n","'","s"," ","W","a","l","l",
                " ","i","n"," ","B","r","i","t","a","i","n">>,
              <<"E","x","t","e","n","s","i","v","e"," ","t","r","a","v","e","l","i","n","g"," ",
                "t","h","r","o","u","g","h","o","u","t"," ","t","h","e"," ","e","m","p","i","r",
                "e">>,
              <<"P","r","o","m","o","t","e","d"," ","G","r","e","e","k"," ","c","u","l","t","u",
                "r","e"," ","(","p","h","i","l","h","e","l","l","e","n","i","s","m",")">>,
              <<"B","u","i","l","t"," ","t","h","e"," ","P","a","n","t","h","e","o","n"," ","i",
                "n"," ","i","t","s"," ","c","u","r","r","e","n","t"," ","f","o","r","m">>,
              <<"B","u","i","l","t"," ","h","i","s"," ","m","a","s","s","i","v","e"," ","v","i",
                "l","l","a"," ","a","t"," ","T","i","v","o","l","i">> >>),
        Some(
          <<"H","e","a","r","t"," ","f","a","i","l","u","r","e">>),
        Some(
          <<"T","r","a","j","a","n">>),
        None,
        Some(<<
              <<"V","i","b","i","a"," ","S","a","b","i","n","a"," ","(","T","r","a","j","a","n",
                "'","s"," ","g","r","a","n","d","n","i","e","c","e",")">> >>),
        Some(
          <<"A","q","u","a","r","i","u","s">>))

\* lines 431-450
antoninus_pius ==
    RomanEmperor("antoninus_pius",
        <<"A","n","t","o","n","i","n","u","s"," ","P","i","u","s">>,
        86,
        161,
        138,
        161,
        Some(
          <<"N","e","r","v","a","-","A","n","t","o","n","i","n","e">>),
        Some(<<
              <<"O","n","e"," ","o","f"," ","t","h","e"," ","m","o","s","t"," ","p","e","a","c",
                "e","f","u","l"," ","r","e","i","g","n","s">>,
              <<"E","f","f","e","c","t","i","v","e"," ","a","d","m","i","n","i","s","t","r","a",
                "t","i","o","n"," ","a","n","d"," ","s","o","u","n","d"," ","f","i","n","a","n",
                "c","e","s">>,
              <<"L","e","g","a","l"," ","r","e","f","o","r","m","s"," ","p","r","o","t","e","c",
                "t","i","n","g"," ","s","l","a","v","e","s"," ","a","n","d"," ","o","r","p","h",
                "a","n","s">>,
              <<"B","u","i","l","t"," ","t","h","e"," ","A","n","t","o","n","i","n","e"," ","W",
                "a","l","l"," ","i","n"," ","S","c","o","t","l","a","n","d">> >>),
        Some(
          <<"N","a","t","u","r","a","l"," ","c","a","u","s","e","s">>),
        Some(
          <<"H","a","d","r","i","a","n">>),
        None,
        Some(<<
              <<"F","a","u","s","t","i","n","a"," ","t","h","e"," ","E","l","d","e","r">> >>),
        Some(
          <<"V","i","r","g","o">>))

\* lines 452-471
marcus_aurelius ==
    RomanEmperor("marcus_aurelius",
        <<"M","a","r","c","u","s"," ","A","u","r","e","l","i","u","s">>,
        121,
        180,
        161,
        180,
        Some(
          <<"N","e","r","v","a","-","A","n","t","o","n","i","n","e">>),
        Some(<<
              <<"P","h","i","l","o","s","o","p","h","e","r"," ","e","m","p","e","r","o","r"," ",
                "w","h","o"," ","w","r","o","t","e"," ","'","M","e","d","i","t","a","t","i","o",
                "n","s","'">>,
              <<"S","u","c","c","e","s","s","f","u","l","l","y"," ","d","e","f","e","n","d","e",
                "d"," ","b","o","r","d","e","r","s"," ","a","g","a","i","n","s","t"," ","G","e",
                "r","m","a","n","i","c"," ","t","r","i","b","e","s">>,
              <<"D","e","a","l","t"," ","w","i","t","h"," ","t","h","e"," ","A","n","t","o","n",
                "i","n","e"," ","P","l","a","g","u","e">>,
              <<"L","a","s","t"," ","o","f"," ","t","h","e"," ","'","F","i","v","e"," ","G","o",
                "o","d"," ","E","m","p","e","r","o","r","s","'">> >>),
        Some(
          <<"I","l","l","n","e","s","s"," ","(","p","o","s","s","i","b","l","y"," ","p","l","a",
            "g","u","e",")">>),
        Some(
          <<"A","n","t","o","n","i","n","u","s"," ","P","i","u","s">>),
        None,
        Some(<<
              <<"F","a","u","s","t","i","n","a"," ","t","h","e"," ","Y","o","u","n","g","e","r",
                " ","(","d","a","u","g","h","t","e","r"," ","o","f"," ","A","n","t","o","n","i",
                "n","u","s"," ","P","i","u","s",")">> >>),
        Some(
          <<"A","r","i","e","s">>))

\* lines 473-491
commodus ==
    RomanEmperor("commodus",
        <<"C","o","m","m","o","d","u","s">>,
        161,
        192,
        180,
        192,
        Some(
          <<"N","e","r","v","a","-","A","n","t","o","n","i","n","e">>),
        Some(<<
              <<"E","n","d","e","d"," ","w","a","r","s"," ","w","i","t","h"," ","G","e","r","m",
                "a","n","i","c"," ","t","r","i","b","e","s">>,
              <<"P","r","e","s","e","n","t","e","d"," ","h","i","m","s","e","l","f"," ","a","s",
                " ","H","e","r","c","u","l","e","s">>,
              <<"P","a","r","t","i","c","i","p","a","t","e","d"," ","a","s"," ","a"," ","g","l",
                "a","d","i","a","t","o","r"," ","i","n"," ","t","h","e"," ","C","o","l","o","s",
                "s","e","u","m">> >>),
        Some(
          <<"S","t","r","a","n","g","l","e","d"," ","i","n"," ","h","i","s"," ","b","a","t","h",
            " ","a","f","t","e","r"," ","f","a","i","l","e","d"," ","p","o","i","s","o","n","i",
            "n","g">>),
        Some(
          <<"M","a","r","c","u","s"," ","A","u","r","e","l","i","u","s">>),
        None,
        Some(<<
              <<"B","r","u","t","t","i","a"," ","C","r","i","s","p","i","n","a"," ","(","e","x",
                "i","l","e","d"," ","a","n","d"," ","l","a","t","e","r"," ","e","x","e","c","u",
                "t","e","d",")">> >>),
        Some(
          <<"V","i","r","g","o">>))

\* lines 494-514
septimius_severus ==
    RomanEmperor("septimius_severus",
        <<"S","e","p","t","i","m","i","u","s"," ","S","e","v","e","r","u","s">>,
        145,
        211,
        193,
        211,
        Some(
          <<"S","e","v","e","r","a","n">>),
        Some(<<
              <<"M","i","l","i","t","a","r","y"," ","r","e","f","o","r","m","s"," ","f","a","v",
                "o","r","i","n","g"," ","t","h","e"," ","a","r","m","y">>,
              <<"C","a","m","p","a","i","g","n","s"," ","i","n"," ","P","a","r","t","h","i","a",
                " ","a","n","d"," ","B","r","i","t","a","i","n">>,
              <<"I","n","c","r","e","a","s","e","d"," ","t","h","e"," ","r","o","l","e"," ","o",
                "f"," ","t","h","e"," ","m","i","l","i","t","a","r","y"," ","i","n"," ","g","o",
                "v","e","r","n","m","e","n","t">>,
              <<"R","e","s","t","o","r","e","d"," ","s","t","a","b","i","l","i","t","y"," ","a",
                "f","t","e","r"," ","c","i","v","i","l"," ","w","a","r">> >>),
        Some(
          <<"I","l","l","n","e","s","s"," ","d","u","r","i","n","g"," ","c","a","m","p","a","i",
            "g","n"," ","i","n"," ","B","r","i","t","a","i","n">>),
        Some(
          <<"P","e","r","t","i","n","a","x","/","D","i","d","i","u","s"," ","J","u","l","i","a",
            "n","u","s">>),
        None,
        Some(<<
              <<"P","a","c","c","i","a"," ","M","a","r","c","i","a","n","a"," ","(","d","i","e",
                "d",")">>,
              <<"J","u","l","i","a"," ","D","o","m","n","a"," ","(","S","y","r","i","a","n"," ",
                "n","o","b","l","e","w","o","m","a","n",")">> >>),
        Some(
          <<"A","r","i","e","s">>))

\* lines 516-535
caracalla ==
    RomanEmperor("caracalla",
        <<"C","a","r","a","c","a","l","l","a">>,
        188,
        217,
        211,
        217,
        Some(
          <<"S","e","v","e","r","a","n">>),
        Some(<<
              <<"C","o","n","s","t","i","t","u","t","i","o"," ","A","n","t","o","n","i","n","i",
                "a","n","a"," ","(","g","r","a","n","t","e","d"," ","c","i","t","i","z","e","n",
                "s","h","i","p"," ","t","o"," ","a","l","l"," ","f","r","e","e"," ","m","e","n",
                ")">>,
              <<"B","u","i","l","t"," ","t","h","e"," ","m","a","s","s","i","v","e"," ","B","a",
                "t","h","s"," ","o","f"," ","C","a","r","a","c","a","l","l","a">>,
              <<"M","i","l","i","t","a","r","y"," ","c","a","m","p","a","i","g","n","s"," ","a",
                "g","a","i","n","s","t"," ","G","e","r","m","a","n","i","c"," ","t","r","i","b",
                "e","s"," ","a","n","d"," ","P","a","r","t","h","i","a","n","s">>,
              <<"D","o","u","b","l","e","d"," ","p","a","y"," ","f","o","r"," ","s","o","l","d",
                "i","e","r","s">> >>),
        Some(
          <<"A","s","s","a","s","s","i","n","a","t","e","d"," ","b","y"," ","a"," ","d","i","s",
            "g","r","u","n","t","l","e","d"," ","s","o","l","d","i","e","r">>),
        Some(
          <<"S","e","p","t","i","m","i","u","s"," ","S","e","v","e","r","u","s">>),
        None,
        Some(<<
              <<"F","u","l","v","i","a"," ","P","l","a","u","t","i","l","l","a"," ","(","e","x",
                "e","c","u","t","e","d",")">> >>),
        Some(
          <<"A","r","i","e","s">>))

\* lines 538-558
diocletian ==
    RomanEmperor("diocletian",
        <<"D","i","o","c","l","e","t","i","a","n">>,
        244,
        311,
        284,
        305,
        Some(
          <<"T","e","t","r","a","r","c","h","y">>),
        Some(<<
              <<"E","n","d","e","d"," ","t","h","e"," ","C","r","i","s","i","s"," ","o","f"," ",
                "t","h","e"," ","T","h","i","r","d"," ","C","e","n","t","u","r","y">>,
              <<"E","s","t","a","b","l","i","s","h","e","d"," ","t","h","e"," ","T","e","t","r",
                "a","r","c","h","y"," ","(","r","u","l","e"," ","o","f"," ","f","o","u","r",")">>,
              <<"A","d","m","i","n","i","s","t","r","a","t","i","v","e"," ","r","e","f","o","r",
                "m","s"," ","d","i","v","i","d","i","n","g"," ","t","h","e"," ","e","m","p","i",
                "r","e">>,
              <<"E","c","o","n","o","m","i","c"," ","r","e","f","o","r","m","s"," ","i","n","c",
                "l","u","d","i","n","g"," ","p","r","i","c","e"," ","c","o","n","t","r","o","l",
                "s">>,
              <<"M","a","j","o","r"," ","p","e","r","s","e","c","u","t","i","o","n"," ","o","f",
                " ","C","h","r","i","s","t","i","a","n","s">> >>),
        Some(
          <<"N","a","t","u","r","a","l"," ","c","a","u","s","e","s"," ","(","r","e","t","i","r",
            "e","d",")">>),
        Some(
          <<"N","u","m","e","r","i","a","n">>),
        None,
        Some(<<
              <<"P","r","i","s","c","a">> >>),
        Some(
          <<"C","a","p","r","i","c","o","r","n">>))

\* lines 561-583
constantine ==
    RomanEmperor("constantine",
        <<"C","o","n","s","t","a","n","t","i","n","e"," ","t","h","e"," ","G","r","e","a","t">>,
        272,
        337,
        306,
        337,
        Some(
          <<"C","o","n","s","t","a","n","t","i","n","i","a","n">>),
        Some(<<
              <<"F","i","r","s","t"," ","C","h","r","i","s","t","i","a","n"," ","e","m","p","e",
                "r","o","r">>,
              <<"E","d","i","c","t"," ","o","f"," ","M","i","l","a","n"," ","(","r","e","l","i",
                "g","i","o","u","s"," ","t","o","l","e","r","a","n","c","e",")">>,
              <<"F","o","u","n","d","e","d"," ","C","o","n","s","t","a","n","t","i","n","o","p",
                "l","e"," ","a","s"," ","n","e","w"," ","c","a","p","i","t","a","l">>,
              <<"C","o","n","v","e","n","e","d"," ","t","h","e"," ","F","i","r","s","t"," ","C",
                "o","u","n","c","i","l"," ","o","f"," ","N","i","c","a","e","a">>,
              <<"R","e","u","n","i","t","e","d"," ","t","h","e"," ","e","m","p","i","r","e"," ",
                "a","f","t","e","r"," ","c","i","v","i","l"," ","w","a","r","s">>,
              <<"C","r","e","a","t","e","d"," ","n","e","w"," ","g","o","v","e","r","n","m","e",
                "n","t"," ","a","n","d"," ","m","i","l","i","t","a","r","y"," ","s","t","r","u",
                "c","t","u","r","e">> >>),
        Some(
          <<"I","l","l","n","e","s","s">>),
        Some(
          <<"C","o","n","s","t","a","n","t","i","u","s"," ","I"," ","C","h","l","o","r","u","s",
            " ","(","i","n"," ","t","h","e"," ","W","e","s","t",")">>),
        None,
        Some(<<
              <<"M","i","n","e","r","v","i","n","a">>,
              <<"F","a","u","s","t","a"," ","(","d","a","u","g","h","t","e","r"," ","o","f"," ",
                "M","a","x","i","m","i","a","n",")">> >>),
        Some(
          <<"P","i","s","c","e","s">>))

\* The list the loop of create_roman_empire adds, in its order.
SeedOrder ==
    <<augustus,tiberius,caligula,claudius,nero,galba,otho,vitellius,vespasian,
      titus,domitian,nerva,trajan,hadrian,antoninus_pius,marcus_aurelius,
      commodus,septimius_severus,caracalla,diocletian,constantine>>

\* The assignments "a.successor = b" of create_roman_empire, in their order.
SuccessorAssignments ==
    << << "augustus","tiberius" >>,<< "tiberius","caligula" >>,
       << "caligula","claudius" >>,<< "claudius","nero" >>,
       << "nero","galba" >>,<< "galba","otho" >>,<< "otho","vitellius" >>,
       << "vitellius","vespasian" >>,<< "vespasian","titus" >>,
       << "titus","domitian" >>,<< "domitian","nerva" >>,
       << "nerva","trajan" >>,<< "trajan","hadrian" >>,
       << "hadrian","antoninus_pius" >>,
       << "antoninus_pius","marcus_aurelius" >>,
       << "marcus_aurelius","commodus" >> >>

----------------------------------------------------------------------------
(* The state machine.                                                      *)
(*   pc = "api"   a caller holds a collection made by RomanEmpire() and    *)
(*                calls its methods                                        *)
(*   pc = "add"   create_roman_empire is in its loop of add_emperor calls, *)
(*                i of them done                                           *)
(*   pc = "wire"  create_roman_empire is setting successors, i of the      *)
(*                assignments done                                         *)
(*   pc = "done"  create_roman_empire has returned the collection          *)
(*   pc = "prompt"   main is at the input() of its loop                    *)
(*   pc = "exited"   main has left its loop by the break                   *)
(*   pc = "raised"   an exception has left main                            *)
(* call and ret hold the query that has just returned and its result,      *)
(* until the caller drops the result; in the loop of main, the input()     *)
(* that has just returned and what the iteration printed for it.           *)

Call(op, args) == [op |-> op, args |-> args]

NoCall == Call("none", <<>>)

\* RomanEmpire.__init__
Init ==
    /\ emperors = <<>>
    /\ dynasties = {}
    /\ pc = "api"
    /\ i = 0
    /\ call = NoCall
    /\ ret = None

\* RomanEmpire.add_emperor
add_emperor(emperor) ==
    /\ emperors' = Append(emperors, emperor)
    /\ dynasties' = IF Truthy(emperor.dynasty)
                    THEN dynasties \cup {emperor.dynasty[1]}
                    ELSE dynasties

AddEmperor(emperor) ==
    /\ pc = "api"
    /\ call = NoCall
    /\ Len(emperors) < MaxEmperors
    /\ add_emperor(emperor)
    /\ UNCHANGED <<pc, i, call, ret>>

\* A query method whose sort is done in place: "self.emperors.sort(...)"
\* in get_longest_reigning.
QuerySortingInPlace(op, args, value) ==
    /\ pc \in {"api", "done"}
    /\ call = NoCall
    /\ call' = Call(op, args)
    /\ ret' = value
    /\ emperors' = IF op = "get_longest_reigning"
                   THEN sorted(emperors, [k \in 1..Len(emperors) |-> reign_duration(emperors[k])], TRUE)
                   ELSE emperors
    /\ UNCHANGED <<dynasties, pc, i>>

\* A query method returns value and changes nothing.
Query(op, args, value) ==
    /\ pc \in {"api", "done"}
    /\ call = NoCall
    /\ call' = Call(op, args)
    /\ ret' = value
    /\ UNCHANGED <<emperors, dynasties, pc, i>>

\* The caller is done with the result of its last query.
Discard ==
    /\ call # NoCall
    /\ call' = NoCall
    /\ ret' = None
    /\ UNCHANGED <<emperors, dynasties, pc, i>>

GetEmperorByName(name) ==
    Query("get_emperor_by_name", <<name>>, get_emperor_by_name(emperors, name))

GetEmperorByYear(year) ==
    Query("get_emperor_by_year", <<year>>, get_emperor_by_year(emperors, year))

GetEmperorsByDynasty(dynasty) ==
    Query("get_emperors_by_dynasty", <<dynasty>>, get_emperors_by_dynasty(emperors, dynasty))

GetEmperorsByPeriod(start_year, end_year) ==
    Query("get_emperors_by_period", <<start_year, end_year>>,
          get_emperors_by_period(emperors, start_year, end_year))

GetEmperorsByZodiac(zodiac_sign) ==
    Query("get_emperors_by_zodiac", <<zodiac_sign>>, get_emperors_by_zodiac(emperors, zodiac_sign))

GetLongestReigning(top_n) ==
    Query("get_longest_reigning", <<top_n>>, get_longest_reigning(emperors, top_n))

GetShortestReigning(top_n) ==
    Query("get_shortest_reigning", <<top_n>>, get_shortest_reigning(emperors, top_n))

GetOldestAtDeath(top_n) ==
    Query("get_oldest_at_death", <<top_n>>, get_oldest_at_death(emperors, top_n))

GetYoungestAtAccession(top_n) ==
    Query("get_youngest_at_accession", <<top_n>>, get_youngest_at_accession(emperors, top_n))

GetMostAchievements(top_n) ==
    Query("get_most_achievements", <<top_n>>, get_most_achievements(emperors, top_n))

GetEmperorsByWife(wife_name) ==
    Query("get_emperors_by_wife", <<wife_name>>, get_emperors_by_wife(emperors, wife_name))

Next ==
    \/ \E emperor \in EmperorPool : AddEmperor(emperor)
    \/ \E name \in Fragments : GetEmperorByName(name)
    \/ \E year \in Years : GetEmperorByYear(year)
    \/ \E dynasty \in DynastyArgs : GetEmperorsByDynasty(dynasty)
    \/ \E start_year \in Years, end_year \in Years : GetEmperorsByPeriod(start_year, end_year)
    \/ \E zodiac_sign \in ZodiacArgs : GetEmperorsByZodiac(zodiac_sign)
    \/ \E top_n \in TopNs : GetLongestReigning(top_n)
    \/ \E top_n \in TopNs : GetShortestReigning(top_n)
    \/ \E top_n \in TopNs : GetOldestAtDeath(top_n)
    \/ \E top_n \in TopNs : GetYoungestAtAccession(top_n)
    \/ \E top_n \in TopNs : GetMostAchievements(top_n)
    \/ \E wife_name \in Fragments : GetEmperorsByWife(wife_name)
    \/ Discard

Spec == Init /\ [][Next]_vars

----------------------------------------------------------------------------
(* create_roman_empire, step by step, and queries on what it returns *)

\* empire = RomanEmpire(), the 21 records constructed, the loop not begun
SeedInit ==
    /\ emperors = <<>>
    /\ dynasties = {}
    /\ pc = "add"
    /\ i = 0
    /\ call = NoCall
    /\ ret = None

\* One iteration of "for emperor in [...]: empire.add_emperor(emperor)".
SeedAdd ==
    /\ pc = "add"
    /\ i < Len(SeedOrder)
    /\ add_emperor(SeedOrder[i + 1])
    /\ i' = IF i + 1 = Len(SeedOrder) THEN 0 ELSE i + 1
    /\ pc' = IF i + 1 = Len(SeedOrder) THEN "wire" ELSE "add"
    /\ UNCHANGED <<call, ret>>

\* The assignment the other way round: "b.successor = a".
SetAttrSuccessorReversed(es, a, b) ==
    [k \in 1..Len(es) |->
        IF es[k].obj = b THEN [es[k] EXCEPT !.successor = Some(a)] ELSE es[k]]

\* "a.successor = b": the object a is in the collection, which sees the
\* assignment; the reference to b is b's identity.
SetAttrSuccessor(es, a, b) ==
    [k \in 1..Len(es) |->
        IF es[k].obj = a THEN [es[k] EXCEPT !.successor = Some(b)] ELSE es[k]]

\* The next of the successor assignments; after the last one, return empire.
SetSuccessor ==
    /\ pc = "wire"
    /\ i < Len(SuccessorAssignments)
    /\ emperors' = SetAttrSuccessor(emperors, SuccessorAssignments[i + 1][1],
                                    SuccessorAssignments[i + 1][2])
    /\ i' = i + 1
    /\ pc' = IF i + 1 = Len(SuccessorAssignments) THEN "done" ELSE "wire"
    /\ UNCHANGED <<dynasties, call, ret>>

\* The years the emperors of create_roman_empire reigned in, and the years
\* around them.
SeedYears == (augustus.reign_start - MaxYear)..(constantine.reign_end + MaxYear)

SeedTopNs == (0 - MaxN)..(Len(SeedOrder) + MaxN)

SeedNext ==
    \/ SeedAdd
    \/ SetSuccessor
    \/ \E year \in SeedYears : GetEmperorByYear(year)
    \/ \E top_n \in SeedTopNs : GetLongestReigning(top_n)
    \/ Discard

SeedSpec == SeedInit /\ [][SeedNext]_vars

----------------------------------------------------------------------------
(* main: create_roman_empire, the example queries, the loop that asks for  *)
(* a year *)

Digits == <<"0","1","2","3","4","5","6","7","8","9">>

IsDigit(c) == \E k \in DOMAIN Digits : Digits[k] = c

DigitValue(c) == (CHOOSE k \in DOMAIN Digits : Digits[k] = c) - 1

Whitespace == {" ", "\t"}

RECURSIVE lstrip(_)
lstrip(s) == IF s # <<>> /\ s[1] \in Whitespace THEN lstrip(Tail(s)) ELSE s

RECURSIVE rstrip(_)
rstrip(s) ==
    IF s # <<>> /\ s[Len(s)] \in Whitespace THEN rstrip(SubSeq(s, 1, Len(s) - 1)) ELSE s

\* The digits of body read from the left, underscores passed over; v is the
\* value of the digits read so far.
RECURSIVE digits_value(_, _, _)
digits_value(body, k, v) ==
    IF k > Len(body) THEN v
    ELSE IF body[k] = "_" THEN digits_value(body, k + 1, v)
    ELSE digits_value(body, k + 1, 10 * v + DigitValue(body[k]))

\* int(s) for a str s: Some(value), or None where int raises ValueError.
\* Blanks around the number are dropped; one sign may lead; the digits may
\* hold single underscores between them.
ParseInt(s) ==
    LET t == rstrip(lstrip(s))
        signed == t # <<>> /\ t[1] \in {"+", "-"}
        body == IF signed THEN Tail(t) ELSE t
        wellformed ==
            /\ body # <<>>
            /\ \A k \in DOMAIN body : IsDigit(body[k]) \/ body[k] = "_"
            /\ body[1] # "_"
            /\ body[Len(body)] # "_"
            /\ \A k \in 1..(Len(body) - 1) : ~(body[k] = "_" /\ body[k + 1] = "_")
    IN  IF ~wellformed THEN None
        ELSE IF signed /\ t[1] = "-" THEN Some(0 - digits_value(body, 1, 0))
        ELSE Some(digits_value(body, 1, 0))

exit == <<"e","x","i","t">>

\* What an iteration of the loop printed: kind is "rulers" (the heading and
\* each record of shown), "no_ruler" (the message that nobody ruled in
\* year), "invalid" (the message asking for a valid year) or "nothing".
Printed(kind, year, shown) ==
    [kind |-> kind,
     year |-> year,
     era |-> IF year = None THEN None ELSE IF year[1] >= 0 THEN Some("CE") ELSE Some("BCE"),
     shown |-> shown]

\* An iteration with no "except ValueError": the exception leaves main.
loop_iteration_uncaught(es, year_input) ==
    IF lower(year_input) = exit
    THEN [pc |-> "exited", printed |-> Printed("nothing", None, <<>>)]
    ELSE IF ParseInt(year_input) = None
    THEN [pc |-> "raised", printed |-> Printed("nothing", None, <<>>)]
    ELSE LET year == ParseInt(year_input)[1]
             found == get_emperor_by_year(es, year)
         IN  [pc |-> "prompt",
              printed |-> IF found # <<>>
                          THEN Printed("rulers", Some(year), found)
                          ELSE Printed("no_ruler", Some(year), <<>>)]

\* One iteration of "while True" for the line year_input that input()
\* returned: where main is afterwards, and what it printed.
loop_iteration(es, year_input) ==
    IF lower(year_input) = exit
    THEN [pc |-> "exited", printed |-> Printed("nothing", None, <<>>)]
    ELSE IF ParseInt(year_input) = None
    THEN [pc |-> "prompt", printed |-> Printed("invalid", None, <<>>)]
    ELSE LET year == ParseInt(year_input)[1]
             found == get_emperor_by_year(es, year)
         IN  [pc |-> "prompt",
              printed |-> IF found # <<>>
                          THEN Printed("rulers", Some(year), found)
                          ELSE Printed("no_ruler", Some(year), <<>>)]

\* The example queries of main and their printing; they change nothing.
MainDemo ==
    /\ pc = "done"
    /\ call = NoCall
    /\ pc' = "prompt"
    /\ UNCHANGED <<emperors, dynasties, i, call, ret>>

\* input() returns a line and the iteration runs.
MainLoop(year_input) ==
    /\ pc = "prompt"
    /\ call = NoCall
    /\ call' = Call("input", <<year_input>>)
    /\ pc' = loop_iteration(emperors, year_input).pc
    /\ ret' = loop_iteration(emperors, year_input).printed
    /\ UNCHANGED <<emperors, dynasties, i>>

\* The input has ended: input() raises EOFError, which main does not catch.
MainLoopEOF ==
    /\ pc = "prompt"
    /\ call = NoCall
    /\ call' = Call("input", <<>>)
    /\ pc' = "raised"
    /\ ret' = Printed("nothing", None, <<>>)
    /\ UNCHANGED <<emperors, dynasties, i>>

NumberChars == {"6", "9", "-", " ", "_"}

\* The lines typed at the prompt: the short lines of digits, signs, blanks
\* and underscores, "exit" in every case, and words close to it.
InputLines ==
    UNION {[1..n -> NumberChars] : n \in 0..MaxLineLen}
    \cup {<<a, b, c, d>> : a \in {"e","E"}, b \in {"x","X"}, c \in {"i","I"}, d \in {"t","T"}}
    \cup {<<"e","x","i">>, <<"q","u","i","t">>, <<" ","e","x","i","t">>,
          <<"e","x","i","t"," ">>, <<"+","6","9">>, <<"6","9","a">>}

MainNext ==
    \/ SeedAdd
    \/ SetSuccessor
    \/ MainDemo
    \/ \E year_input \in InputLines : MainLoop(year_input)
    \/ MainLoopEOF
    \/ Discard

MainSpec == SeedInit /\ [][MainNext]_vars

----------------------------------------------------------------------------
(* What the claims are stated with *)

\* The k-th smallest member of a set M of indices.
NthIndex(M, k) == CHOOSE m \in M : Cardinality({j \in M : j < m}) = k - 1

\* The records of es at the indices M, each once, in the order of es.
Pick(es, M) == [k \in 1..Cardinality(M) |-> es[NthIndex(M, k)]]

TopNOps ==
    {"get_longest_reigning", "get_shortest_reigning", "get_oldest_at_death",
     "get_youngest_at_accession", "get_most_achievements"}

\* The key a top-N operation sorts by.
SortKey(op, e) ==
    CASE op = "get_longest_reigning" -> e.reign_end - e.reign_start
      [] op = "get_shortest_reigning" -> e.reign_end - e.reign_start
      [] op = "get_oldest_at_death" -> e.death - e.birth
      [] op = "get_youngest_at_accession" -> e.reign_start - e.birth
      [] op = "get_most_achievements" -> Len(e.notable_achievements)

Descending(op) ==
    op \in {"get_longest_reigning", "get_oldest_at_death", "get_most_achievements"}

\* Record a of es comes before record b in the order of operation op: a
\* better key, or the same key and added earlier.
Precedes(op, es, a, b) ==
    \/ /\ Descending(op)
       /\ SortKey(op, es[a]) > SortKey(op, es[b])
    \/ /\ ~Descending(op)
       /\ SortKey(op, es[a]) < SortKey(op, es[b])
    \/ /\ SortKey(op, es[a]) = SortKey(op, es[b])
       /\ a < b

\* The place of record a of es in the order of operation op.
Place(op, es, a) == 1 + Cardinality({b \in DOMAIN es : Precedes(op, es, b, a)})

Smaller(a, b) == IF a < b THEN a ELSE b

----------------------------------------------------------------------------
(* The claims *)

\* C1: get_emperor_by_year(y) returns exactly the records r with
\* r.reign_start <= y <= r.reign_end, each once, in the order they were
\* added, and the empty list when there is none.
C1_ByYearExact ==
    call.op = "get_emperor_by_year" =>
        LET y == call.args[1]
            M == {k \in DOMAIN emperors :
                    emperors[k].reign_start <= y /\ y <= emperors[k].reign_end}
        IN  /\ ret = Pick(emperors, M)
            /\ (M = {} => ret = <<>>)

\* A year some records of the collection reigned in and another did not,
\* one of the matches being in the last year of its reign.
C1_Witness ==
    /\ call.op = "get_emperor_by_year"
    /\ Len(ret) >= 2
    /\ Len(ret) < Len(emperors)
    /\ \E k \in DOMAIN ret : ret[k].reign_end = call.args[1]

\* C2: get_emperors_by_period(start_year, end_year) leaves a record r out
\* if and only if r.reign_end < start_year or r.reign_start > end_year, and
\* returns the others in the order they were added.
C2_ByPeriodOverlap ==
    call.op = "get_emperors_by_period" =>
        LET start_year == call.args[1]
            end_year == call.args[2]
            Excluded == {k \in DOMAIN emperors :
                            \/ emperors[k].reign_end < start_year
                            \/ emperors[k].reign_start > end_year}
        IN  ret = Pick(emperors, DOMAIN emperors \ Excluded)

\* A window with a record outside it, a record inside it and a record that
\* begins before the window and ends in it.
C2_Witness ==
    /\ call.op = "get_emperors_by_period"
    /\ Len(ret) < Len(emperors)
    /\ \E k \in DOMAIN ret :
        /\ call.args[1] <= ret[k].reign_start
        /\ ret[k].reign_end <= call.args[2]
    /\ \E k \in DOMAIN ret :
        /\ ret[k].reign_start < call.args[1]
        /\ call.args[1] <= ret[k].reign_end

\* C3: for n >= 0 each top-N operation returns the first min(n, size)
\* records of the collection in the order of its key and direction, records
\* of equal key in the order they were added; so for n >= size it returns
\* every record once.
C3_TopNStable ==
    (call.op \in TopNOps /\ call.args[1] >= 0) =>
        /\ Len(ret) = Smaller(call.args[1], Len(emperors))
        /\ \A a \in DOMAIN emperors :
            Place(call.op, emperors, a) <= Len(ret) =>
                ret[Place(call.op, emperors, a)] = emperors[a]

\* A descending top-N call that cuts the collection short and returns two
\* records of equal key.
C3_Witness ==
    /\ call.op \in TopNOps
    /\ Descending(call.op)
    /\ call.args[1] > 0
    /\ call.args[1] < Len(emperors)
    /\ \E j, k \in DOMAIN ret :
        /\ j < k
        /\ ret[j].obj # ret[k].obj
        /\ SortKey(call.op, ret[j]) = SortKey(call.op, ret[k])

\* C4: for n <= 0 every top-N operation returns an empty list.
C4_NonPositiveEmpty ==
    (call.op \in TopNOps /\ call.args[1] <= 0) => ret = <<>>

\* Characters c and d are the same letter, in either case, or the same
\* character.
SameLetter(c, d) ==
    \/ c = d
    \/ \E k \in DOMAIN UpperCase : {c, d} = {UpperCase[k], LowerCase[k]}

\* text contains fragment, the case of the letters set aside.
ContainsIgnoringCase(text, fragment) ==
    \E o \in 0..(Len(text) - Len(fragment)) :
        \A j \in 1..Len(fragment) : SameLetter(text[o + j], fragment[j])

Present(x) == x # None /\ x[1] # <<>>

\* C5 as it was claimed: dynasties is the set of the dynasty values that
\* are not None.
C5_DynastiesAllNonAbsent ==
    dynasties = {emperors[k].dynasty[1] :
                    k \in {j \in DOMAIN emperors : emperors[j].dynasty # None}}

\* C5, amended: dynasties is always the set of the dynasty values of the
\* records in emperors that are neither None nor the empty string; adding a
\* record whose label is already in the set, or whose dynasty is None or
\* empty, leaves the set as it is.
C5_DynastiesInSync ==
    /\ [](dynasties = {emperors[k].dynasty[1] :
                         k \in {j \in DOMAIN emperors : Present(emperors[j].dynasty)}})
    /\ [][Len(emperors') = Len(emperors) + 1 =>
            LET e == emperors'[Len(emperors')]
            IN  /\ (~Present(e.dynasty) \/ e.dynasty[1] \in dynasties)
                    => dynasties' = dynasties
                /\ (Present(e.dynasty) /\ e.dynasty[1] \notin dynasties)
                    => dynasties' = dynasties \cup {e.dynasty[1]}]_vars

\* Two records of one dynasty, and a record with no dynasty, have been
\* added.
C5_Witness ==
    /\ \E j, k \in DOMAIN emperors :
        /\ j < k
        /\ Present(emperors[j].dynasty)
        /\ emperors[j].dynasty = emperors[k].dynasty
    /\ \E k \in DOMAIN emperors : emperors[k].dynasty = None
    /\ dynasties # {}

\* C6: get_emperors_by_wife(fragment) returns exactly the records with at
\* least one wives entry that contains the fragment, case set aside, in
\* the order they were added, each once.
C6_ByWifeOnce ==
    call.op = "get_emperors_by_wife" =>
        ret = Pick(emperors,
                   {k \in DOMAIN emperors :
                       \E w \in DOMAIN emperors[k].wives :
                           ContainsIgnoringCase(emperors[k].wives[w], call.args[1])})

\* A fragment that two wives of one returned record contain, in another
\* case than it is written in, and that no wife of another record contains.
C6_Witness ==
    /\ call.op = "get_emperors_by_wife"
    /\ Len(ret) < Len(emperors)
    /\ \E k \in DOMAIN ret :
        /\ Cardinality({w \in DOMAIN ret[k].wives :
                           ContainsIgnoringCase(ret[k].wives[w], call.args[1])}) >= 2
        /\ \A w \in DOMAIN ret[k].wives : ~StrIn(call.args[1], ret[k].wives[w])

\* C7: get_emperor_by_name(fragment) returns the first record, in the
\* order they were added, whose name contains the fragment, case set
\* aside, and returns None if and only if there is no such record.
C7_ByNameFirst ==
    call.op = "get_emperor_by_name" =>
        LET M == {k \in DOMAIN emperors :
                    ContainsIgnoringCase(emperors[k].name, call.args[1])}
        IN  /\ (ret = None) <=> (M = {})
            /\ M # {} =>
                /\ ret = Some(emperors[NthIndex(M, 1)])
                /\ \A k \in 1..(NthIndex(M, 1) - 1) : k \notin M

\* The first match is not the first record, a later record matches too,
\* and the name matches in another case than the fragment is written in.
C7_Witness ==
    /\ call.op = "get_emperor_by_name"
    /\ ret # None
    /\ ret[1].obj # emperors[1].obj
    /\ ~StrIn(call.args[1], ret[1].name)
    /\ \E j, k \in DOMAIN emperors :
        /\ j < k
        /\ emperors[j].obj = ret[1].obj
        /\ emperors[k].obj # ret[1].obj
        /\ ContainsIgnoringCase(emperors[k].name, call.args[1])

\* get_emperor_by_year(69) on what create_roman_empire returned.
Year69 == pc = "done" /\ call = Call("get_emperor_by_year", <<69>>)

FourEmperors == {k \in DOMAIN emperors : emperors[k].dynasty = galba.dynasty}

\* C8 as it was claimed: get_emperor_by_year(69) on the collection of
\* create_roman_empire returns the three records of the dynasty "Year of
\* the Four Emperors" and no other record.
C8_Year69Three ==
    Year69 => (Cardinality(FourEmperors) = 3 /\ ret = Pick(emperors, FourEmperors))

\* C8, amended: it returns four records in the order they were added:
\* Galba, Otho and Vitellius, which are the records of the dynasty "Year
\* of the Four Emperors", and then Vespasian, of the Flavian dynasty.
C8_Year69Four ==
    Year69 =>
        /\ [k \in 1..Len(ret) |-> ret[k].obj] = <<"galba", "otho", "vitellius", "vespasian">>
        /\ ret = Pick(emperors, {k \in DOMAIN emperors : emperors[k].obj \in
                                    {"galba", "otho", "vitellius", "vespasian"}})
        /\ SubSeq(ret, 1, 3) = Pick(emperors, FourEmperors)
        /\ ret[4].dynasty = vespasian.dynasty
        /\ ret[4].dynasty # galba.dynasty

C8_Witness == Year69 /\ Len(ret) = 4

\* C9: on the collection of create_roman_empire get_longest_reigning(3)
\* returns the three records of greatest reign_duration(), a tie for a
\* place among them won by the record added earlier, and the first of them
\* reigned more than 40 years.
C9_LongestThree ==
    (pc = "done" /\ call = Call("get_longest_reigning", <<3>>)) =>
        LET In == {k \in DOMAIN emperors : \E j \in DOMAIN ret : ret[j] = emperors[k]}
        IN  /\ Len(ret) = 3
            /\ Cardinality(In) = 3
            /\ \A a \in In, b \in DOMAIN emperors \ In :
                \/ emperors[a].reign_end - emperors[a].reign_start
                     > emperors[b].reign_end - emperors[b].reign_start
                \/ /\ emperors[a].reign_end - emperors[a].reign_start
                        = emperors[b].reign_end - emperors[b].reign_start
                   /\ a < b
            /\ \A j \in 1..2 :
                ret[j].reign_end - ret[j].reign_start
                    >= ret[j + 1].reign_end - ret[j + 1].reign_start
            /\ ret[1].reign_end - ret[1].reign_start > 40

\* The call has returned, and a record that is not returned reigned as
\* long as the third that is.
C9_Witness ==
    /\ pc = "done"
    /\ call = Call("get_longest_reigning", <<3>>)
    /\ Len(ret) = 3
    /\ \E k \in DOMAIN emperors :
        /\ \A j \in DOMAIN ret : ret[j] # emperors[k]
        /\ reign_duration(emperors[k]) = reign_duration(ret[3])

\* C10 as it was claimed: after create_roman_empire every record but the
\* last has the record after it as its successor, and the last has none.
C10_SuccessorChain ==
    pc = "done" =>
        /\ \A k \in 1..(Len(emperors) - 1) :
            emperors[k].successor = Some(emperors[k + 1].obj)
        /\ emperors[Len(emperors)].successor = None

\* C10, amended: after create_roman_empire each of the first 16 records
\* (Augustus to Marcus Aurelius) has the record after it as its successor,
\* and the last five (Commodus, Septimius Severus, Caracalla, Diocletian,
\* Constantine) have no successor.
C10_SuccessorsOfFirstSixteen ==
    pc = "done" =>
        /\ Len(emperors) = 21
        /\ \A k \in 1..16 : emperors[k].successor = Some(emperors[k + 1].obj)
        /\ \A k \in 17..21 : emperors[k].successor = None
        /\ emperors[16].obj = "marcus_aurelius"
        /\ emperors[17].obj = "commodus"

C10_Witness ==
    /\ pc = "done"
    /\ emperors[1].successor = Some("tiberius")
    /\ emperors[17].successor = None
    /\ emperors[18].obj = "septimius_severus"

QueryOps ==
    TopNOps \cup
    {"get_emperor_by_name", "get_emperor_by_year", "get_emperors_by_dynasty",
     "get_emperors_by_period", "get_emperors_by_zodiac", "get_emperors_by_wife"}

\* C11: a step in which a query method returns leaves emperors (its
\* records, their fields and their order) and dynasties as they were; a
\* step that changes emperors or dynasties is an add_emperor: it appends
\* one record to emperors and no query returns in it.
C11_QueriesChangeNothing ==
    [][/\ (call' # call /\ call'.op \in QueryOps)
            => (emperors' = emperors /\ dynasties' = dynasties)
       /\ (emperors' # emperors \/ dynasties' # dynasties)
            => /\ Len(emperors') = Len(emperors) + 1
               /\ SubSeq(emperors', 1, Len(emperors)) = emperors
               /\ call' = call]_vars

\* A top-N query has returned the whole collection in another order than
\* the one emperors holds.
C11_Witness ==
    /\ call.op \in TopNOps
    /\ Len(ret) = Len(emperors)
    /\ ret # emperors
    /\ Len(emperors) >= 2

\* C13: get_emperors_by_period(y, y) returns what get_emperor_by_year(y)
\* returns, for every collection and every year y.
C13_OneYearWindow ==
    /\ (call.op = "get_emperors_by_period" /\ call.args[1] = call.args[2])
            => ret = get_emperor_by_year(emperors, call.args[1])
    /\ call.op = "get_emperor_by_year"
            => ret = get_emperors_by_period(emperors, call.args[1], call.args[1])

\* A one-year window inside the reign of a record that reigned longer, with
\* a record outside it.
C13_Witness ==
    /\ call.op = "get_emperors_by_period"
    /\ call.args[1] = call.args[2]
    /\ Len(ret) < Len(emperors)
    /\ \E k \in DOMAIN ret :
        /\ ret[k].reign_start < call.args[1]
        /\ call.args[1] < ret[k].reign_end

\* line is an integer as it is written: blanks, then an optional sign, then
\* digits with single underscores allowed between them, then blanks.
IsIntegerText(line) ==
    \E a, b \in DOMAIN line :
        /\ a <= b
        /\ line[a] # " "
        /\ line[b] # " "
        /\ \A k \in DOMAIN line : (k < a \/ k > b) => line[k] = " "
        /\ LET first == IF line[a] \in {"+", "-"} THEN a + 1 ELSE a
           IN  /\ first <= b
               /\ IsDigit(line[first])
               /\ IsDigit(line[b])
               /\ \A k \in first..b : IsDigit(line[k]) \/ line[k] = "_"
               /\ \A k \in first..(b - 1) : ~(line[k] = "_" /\ line[k + 1] = "_")

RECURSIVE Pow10(_)
Pow10(n) == IF n = 0 THEN 1 ELSE 10 * Pow10(n - 1)

RECURSIVE SumOver(_, _)
SumOver(f, S) ==
    IF S = {} THEN 0
    ELSE LET x == CHOOSE x \in S : TRUE IN f[x] + SumOver(f, S \ {x})

\* The integer that line writes: each digit counts by its place.
IntegerTextValue(line) ==
    LET D == {k \in DOMAIN line : IsDigit(line[k])}
        weight == [k \in D |->
                     DigitValue(line[k]) * Pow10(Cardinality({j \in D : j > k}))]
        magnitude == SumOver(weight, D)
    IN  IF \E k \in DOMAIN line : line[k] = "-" THEN 0 - magnitude ELSE magnitude

\* line is "exit" in some case of its letters.
IsExitWord(line) ==
    /\ Len(line) = Len(exit)
    /\ \A k \in DOMAIN line : SameLetter(line[k], exit[k])

\* input() has returned a line in the loop of main and the iteration has run.
LineRead == call.op = "input" /\ Len(call.args) = 1

\* What the loop does for a line that is an integer, and for a line that is
\* neither an integer nor one of the words in Exits.
LoopAnswers(Exits) ==
    LineRead =>
        LET line == call.args[1]
        IN  /\ (~IsIntegerText(line) /\ line \notin Exits)
                => (pc = "prompt" /\ ret.kind = "invalid")
            /\ IsIntegerText(line)
                => LET y == IntegerTextValue(line)
                       M == {k \in DOMAIN emperors :
                               emperors[k].reign_start <= y /\ y <= emperors[k].reign_end}
                   IN  /\ pc = "prompt"
                       /\ ret.year = Some(y)
                       /\ ret.shown = Pick(emperors, M)
                       /\ ret.kind = IF M # {} THEN "rulers" ELSE "no_ruler"

\* C12 as it was claimed: a line that is neither an integer nor "exit" gets
\* the error message and the loop prompts again; an integer gets the
\* matching records or the no-match message and the loop prompts again; the
\* loop ends only when the line is "exit".
C12_LoopEndsOnlyOnExit ==
    /\ LoopAnswers({exit})
    /\ (call.op = "input" /\ pc # "prompt") => (LineRead /\ call.args[1] = exit)

\* C12, amended: "exit" is taken in any case of its letters (a line such as
\* "EXIT" ends the loop and gets no error message), and the loop also ends
\* when the input has ended: input() raises EOFError and main does not
\* catch it.
C12_LoopEndsOnExitAnyCaseOrEOF ==
    /\ LoopAnswers({line \in InputLines : IsExitWord(line)})
    /\ (call.op = "input" /\ pc # "prompt")
        => \/ pc = "exited" /\ LineRead /\ IsExitWord(call.args[1])
           \/ pc = "raised" /\ call.args = <<>>

\* A line that is no integer and no "exit" has got the error message and
\* main is at its prompt again.
C12_Witness ==
    /\ LineRead
    /\ ~IsIntegerText(call.args[1])
    /\ ~IsExitWord(call.args[1])
    /\ Len(call.args[1]) >= 2
    /\ \E k \in DOMAIN call.args[1] : IsDigit(call.args[1][k])
    /\ ret.kind = "invalid"
    /\ pc = "prompt"

====
